---- MODULE Spec2Model ----
(***************************************************************************)
(* Model of the nattes subject-based message queue.                        *)
(*   src/nattes/src/lib.rs      registry = HashMap<Uuid, SubscriberHandle> *)
(*   src/nattes-lib/src/lib.rs  registry = Vec<(SubscribeSubject, Sender)> *)
(* Texts are sequences of one-character strings, a token is a sequence of  *)
(* characters and a subject is a sequence of tokens (Vec<String>).         *)
(***************************************************************************)
EXTENDS Integers, Sequences, FiniteSets, TLC

\* ---------------------------------------------------------------- bounds
\* longest text handed to the parsers
MaxTextLen == 5
\* number of subscribe calls on the broker
MaxSubs == 2
\* number of publish calls on the broker
MaxCalls == 3
\* slots of a mailbox: channel(100) in subscribe, scaled down
Capacity == 2
\* tokens of the patterns and of the subjects given to check_subject
MaxPatTokens == 3
MaxSubjTokens == 4
\* identifiers and calls of the unsubscribe specification
MaxUuid == 3
MaxUnsubCalls == 3

\* ------------------------------------------------------------ characters
NUL == "NUL"
Chars == {"a", "b", ".", "*", ">", " ", NUL}
Texts == UNION {[1..n -> Chars] : n \in 0..MaxTextLen}

\* str::contains(char)
Contains(s, c) == \E i \in 1..Len(s) : s[i] = c

\* index of the first '.' of s, 0 when there is none
FirstDot(s) ==
  IF Contains(s, ".") THEN CHOOSE i \in 1..Len(s) : s[i] = "." /\ \A j \in 1..(i-1) : s[j] # "."
  ELSE 0

\* str::split('.'): the tokens between the dots, empty tokens kept
RECURSIVE Split(_)
Split(s) ==
  IF FirstDot(s) = 0 THEN <<s>>
  ELSE <<SubSeq(s, 1, FirstDot(s) - 1)>> \o Split(SubSeq(s, FirstDot(s) + 1, Len(s)))

\* [String]::join(".")
RECURSIVE Join(_)
Join(tokens) ==
  IF Len(tokens) = 0 THEN <<>>
  ELSE IF Len(tokens) = 1 THEN tokens[1]
  ELSE tokens[1] \o <<".">> \o Join(Tail(tokens))

\* Result<_, NatsError>
Ok(v) == [ok |-> TRUE, val |-> v, err |-> "none"]
Err(e) == [ok |-> FALSE, val |-> <<>>, err |-> e]

STAR == <<"*">>
GT == <<">">>

\* PublishSubject::from_str (the same in both crates)
PublishSubject_from_str(subject) ==
  IF \E c \in {"*", ">", NUL, " "} : Contains(subject, c)
  THEN Err("InvalidPublishSubject")
  ELSE Ok(Split(subject))

\* a conversion that keeps only the first token
PublishSubject_into_Mut(tokens) == SubSeq(tokens, 1, 1)

\* From<PublishSubject> for SubscribeSubject: the same tokens
PublishSubject_into(tokens) == tokens

\* a join that leaves the empty tokens out
PublishSubject_to_string_Mut(tokens) == Join(SelectSeq(tokens, LAMBDA t : t # <<>>))

\* String::from(PublishSubject) / Display
PublishSubject_to_string(tokens) == Join(tokens)

\* the test of one token in SubscribeSubject::from_str of nattes-lib;
\* i is 1-based and n the number of tokens
BadPart_lib(part, i, n) ==
  \/ Contains(part, "*") /\ part # STAR
  \/ Contains(part, ">") /\ (part # GT \/ i # n)

\* the same test in nattes: `&&` binds tighter than `||`
BadPart(part, i, n) ==
  \/ Contains(part, "*") /\ part # STAR
  \/ (Contains(part, ">") /\ part # GT) \/ i # n

\* SubscribeSubject::from_str of nattes-lib
SubscribeSubject_from_str_lib(subject) ==
  IF \E c \in {NUL, " "} : Contains(subject, c)
  THEN Err("InvalidPublishSubject")
  ELSE LET parts == Split(subject) IN
       IF \E i \in 1..Len(parts) : BadPart_lib(parts[i], i, Len(parts))
       THEN Err("InvalidSubscribeSubject")
       ELSE Ok(parts)

\* SubscribeSubject::from_str of nattes
SubscribeSubject_from_str(subject) ==
  IF \E c \in {NUL, " "} : Contains(subject, c)
  THEN Err("InvalidPublishSubject")
  ELSE LET parts == Split(subject) IN
       IF \E i \in 1..Len(parts) : BadPart(parts[i], i, Len(parts))
       THEN Err("InvalidSubscribeSubject")
       ELSE Ok(parts)

\* a check_subject whose ">" stands for exactly one token
RECURSIVE CheckFrom_MutOne(_, _, _)
CheckFrom_MutOne(pat, subj, i) ==
  IF i > Len(pat) THEN Len(pat) = Len(subj)
  ELSE IF (pat[i] = GT \/ pat[i] = STAR) /\ i <= Len(subj) THEN CheckFrom_MutOne(pat, subj, i + 1)
  ELSE IF i > Len(subj) \/ pat[i] # subj[i] THEN FALSE
  ELSE CheckFrom_MutOne(pat, subj, i + 1)

\* a check_subject whose ">" does not ask for a token at its index
RECURSIVE CheckFrom_MutAny(_, _, _)
CheckFrom_MutAny(pat, subj, i) ==
  IF i > Len(pat) THEN Len(pat) = Len(subj)
  ELSE IF pat[i] = GT THEN TRUE
  ELSE IF pat[i] = STAR /\ i <= Len(subj) THEN CheckFrom_MutAny(pat, subj, i + 1)
  ELSE IF i > Len(subj) \/ pat[i] # subj[i] THEN FALSE
  ELSE CheckFrom_MutAny(pat, subj, i + 1)

\* a check_subject without the comparison of the lengths after the loop
RECURSIVE CheckFrom_MutLen(_, _, _)
CheckFrom_MutLen(pat, subj, i) ==
  IF i > Len(pat) THEN TRUE
  ELSE IF pat[i] = GT /\ i <= Len(subj) THEN TRUE
  ELSE IF pat[i] = STAR /\ i <= Len(subj) THEN CheckFrom_MutLen(pat, subj, i + 1)
  ELSE IF i > Len(subj) \/ pat[i] # subj[i] THEN FALSE
  ELSE CheckFrom_MutLen(pat, subj, i + 1)

\* the loop of SubscribeSubject::check_subject from index i (1-based)
RECURSIVE CheckFrom(_, _, _)
CheckFrom(pat, subj, i) ==
  IF i > Len(pat) THEN Len(pat) = Len(subj)
  ELSE IF pat[i] = GT /\ i <= Len(subj) THEN TRUE
  ELSE IF pat[i] = STAR /\ i <= Len(subj) THEN CheckFrom(pat, subj, i + 1)
  ELSE IF i > Len(subj) \/ pat[i] # subj[i] THEN FALSE
  ELSE CheckFrom(pat, subj, i + 1)

\* SubscribeSubject::check_subject (the same in both crates)
check_subject(pat, subj) == CheckFrom(pat, subj, 1)

\* ---------------------------------------------------------------- broker
Publishers == {"p1", "p2"}
Uuids == 1..MaxSubs

\* texts the callers of the broker parse into subjects and patterns
SubjectTexts == {<<"a">>}
PatternTexts == {<<"*">>, <<"b">>}

VARIABLES
  impl,         \* the crate: "nattes" or "nattes_lib"
  subscribers,  \* Nattes.subscribers of the broker: uuid -> SubscriberHandle
  handles,      \* the Subscriber values returned by subscribe, by uuid
  nextUuid,     \* the next identifier Uuid::now_v7 gives out
  mailbox,      \* the queue of each mpsc channel, named by the uuid of its subscriber
  closed,       \* the channels whose Receiver is gone
  lock,         \* holder of the mutex of the broker's registry, or "free"
  pc,           \* position of each publish call: "idle", "locked", "loop"
  list,         \* publish: the clone of the registry, in iteration order
  cur,          \* publish: index of the for loop in list
  subject,      \* publish: the subject argument
  message,      \* publish: the payload
  result,       \* publish: "none" while running, then "Ok" or "Err"
  calls,        \* number of publish calls begun; a payload names its call and its publisher
  sendLog,      \* history: the payloads put in each mailbox, in order
  received,     \* history: the payloads each subscriber took out, in order
  deadAtSnap,   \* history: the handles already destroyed when the call took its snapshot
  snapIds,      \* history: the identifiers registered when the call took its snapshot
  interrupted,  \* history: the calls that were waiting on a full mailbox when its Receiver went
  text,         \* input of the parsers (parser specification)
  parsed,       \* results of the parsers on text
  unsubLog,     \* the identifiers Nattes::unsubscribe was called with (unsubscribe specification)
  matchIO       \* a pattern, a subject and the result of check_subject (matching specification)

vars == <<impl, subscribers, handles, nextUuid, mailbox, closed, lock, pc, list, cur,
          subject, message, result, calls, sendLog, received, deadAtSnap, snapIds,
          interrupted, text, parsed, unsubLog, matchIO>>

brokerVars == <<impl, subscribers, handles, nextUuid, mailbox, closed, lock, pc, list, cur,
                subject, message, result, calls, sendLog, received, deadAtSnap, snapIds,
                interrupted>>

\* sequences: the elements, the occurrences of x, a is a prefix of b
Range(q) == {q[i] : i \in 1..Len(q)}
Count(q, x) == Cardinality({i \in 1..Len(q) : q[i] = x})
IsPrefix(a, b) == Len(a) <= Len(b) /\ \A i \in 1..Len(a) : a[i] = b[i]

\* HashMap::insert / Vec::push
Insert(map, k, v) == [x \in (DOMAIN map) \cup {k} |-> IF x = k THEN v ELSE map[x]]

\* HashMap::remove
Remove(map, k) == [x \in (DOMAIN map) \ {k} |-> map[x]]

\* Nattes::new(): an instance with a registry of its own, empty
NattesNew == <<>>

\* an unsubscribe that keeps only the entries newer than uuid
Nattes_unsubscribe_Mut(reg, uuid) == [x \in {k \in DOMAIN reg : k > uuid} |-> reg[x]]

\* Nattes::unsubscribe on the registry reg
Nattes_unsubscribe(reg, uuid) == Remove(reg, uuid)

\* SubscribeSubject::from_str of the crate
FromStr(i, t) ==
  IF i = "nattes" THEN SubscribeSubject_from_str(t) ELSE SubscribeSubject_from_str_lib(t)

\* the patterns a caller can build by parsing
SubscribeInputs(i) ==
  {FromStr(i, t).val : t \in {x \in PatternTexts : FromStr(i, x).ok}}

\* the subjects a caller can build
PublishInputs ==
  {PublishSubject_from_str(t).val : t \in {x \in SubjectTexts : PublishSubject_from_str(x).ok}}

\* the orders in which `for handle in list.values()` may visit the clone:
\* any order for the HashMap, insertion order for the Vec
Orders(S) == {f \in [1..Cardinality(S) -> S] : \A i, j \in 1..Cardinality(S) : f[i] = f[j] => i = j}
Ascending(f) == \A i, j \in 1..Len(f) : i < j => f[i] < f[j]
IterationOrders(i, reg) ==
  IF i = "nattes" THEN Orders(DOMAIN reg) ELSE {f \in Orders(DOMAIN reg) : Ascending(f)}

\* lock.clone(): the entries of the registry in the order f
Snapshot(reg, f) ==
  [k \in 1..Len(f) |-> [uuid |-> f[k],
                        subscribe_subject |-> reg[f[k]].subscribe_subject,
                        sender |-> reg[f[k]].sender]]

NoMessage == [call |-> 0, by |-> "none"]

NoMatch == [from |-> "none", src |-> <<>>, pat |-> <<>>, subj |-> <<>>, done |-> FALSE,
            result |-> FALSE]

NoResult == [done |-> FALSE, pub |-> Err("none"), str |-> <<>>, sub |-> Err("none"),
             sub_lib |-> Err("none"), matches |-> FALSE, matches_lib |-> FALSE]

\* the state of everything but the broker's registry and the parser inputs
RestInit ==
  /\ impl \in {"nattes", "nattes_lib"}
  /\ handles = <<>>
  /\ nextUuid = 1
  /\ mailbox = [u \in Uuids |-> <<>>]
  /\ closed = {}
  /\ lock = "free"
  /\ pc = [p \in Publishers |-> "idle"]
  /\ list = [p \in Publishers |-> <<>>]
  /\ cur = [p \in Publishers |-> 1]
  /\ subject = [p \in Publishers |-> <<>>]
  /\ message = [p \in Publishers |-> NoMessage]
  /\ result = [p \in Publishers |-> "none"]
  /\ calls = 0
  /\ sendLog = [u \in Uuids |-> <<>>]
  /\ received = [u \in Uuids |-> <<>>]
  /\ deadAtSnap = [p \in Publishers |-> {}]
  /\ snapIds = [p \in Publishers |-> {}]
  /\ interrupted = {}
  /\ parsed = NoResult
  /\ unsubLog = <<>>

\* Nattes::new() and nothing parsed
Init ==
  /\ RestInit
  /\ subscribers = NattesNew
  /\ text = <<>>
  /\ matchIO = NoMatch

\* Nattes::subscribe
Subscribe(pat) ==
  /\ nextUuid <= MaxSubs
  /\ lock = "free"
  /\ subscribers' = Insert(subscribers, nextUuid, [subscribe_subject |-> pat, sender |-> nextUuid])
  /\ handles' = Insert(handles, nextUuid,
                       [uuid |-> nextUuid, subject |-> pat, nattes |-> NattesNew, state |-> "alive"])
  /\ nextUuid' = nextUuid + 1
  /\ UNCHANGED <<impl, mailbox, closed, lock, pc, list, cur, subject, message, result, calls,
                 sendLog, received, deadAtSnap, snapIds, interrupted, text, parsed, unsubLog, matchIO>>

\* the first index from k on of an entry of l whose pattern matches subj,
\* Len(l) + 1 when there is none: the iterations of the for loop of publish
\* that send nothing
\* publish without the check_subject test: every entry is sent to
NextMatch_Mut(l, subj, k) == IF k > Len(l) THEN Len(l) + 1 ELSE k

RECURSIVE NextMatch(_, _, _)
NextMatch(l, subj, k) ==
  IF k > Len(l) THEN Len(l) + 1
  ELSE IF check_subject(l[k].subscribe_subject, subj) THEN k
  ELSE NextMatch(l, subj, k + 1)

\* the end of a publish call: the result goes to the caller, the locals are dropped
Finish(p, r) ==
  /\ result' = [result EXCEPT ![p] = r]
  /\ pc' = [pc EXCEPT ![p] = "idle"]
  /\ list' = [list EXCEPT ![p] = <<>>]
  /\ cur' = [cur EXCEPT ![p] = 1]
  /\ subject' = [subject EXCEPT ![p] = <<>>]
  /\ message' = [message EXCEPT ![p] = NoMessage]
  /\ deadAtSnap' = [deadAtSnap EXCEPT ![p] = {}]
  /\ snapIds' = [snapIds EXCEPT ![p] = {}]
  /\ interrupted' = interrupted \ {p}

\* Nattes::publish, the for loop from index k up to its next send, or to
\* Ok(()) when no entry from k on matches
Continue(p, k) ==
  IF NextMatch(list[p], subject[p], k) > Len(list[p])
  THEN Finish(p, "Ok")
  ELSE /\ cur' = [cur EXCEPT ![p] = NextMatch(list[p], subject[p], k)]
       /\ pc' = [pc EXCEPT ![p] = "loop"]
       /\ UNCHANGED <<result, list, subject, message, deadAtSnap, snapIds, interrupted>>

\* Nattes::publish, the block that locks the registry and clones it
PublishSnapshot(p, subj) ==
  /\ pc[p] = "idle"
  /\ calls < MaxCalls
  /\ lock = "free"
  /\ lock' = p
  /\ \E f \in IterationOrders(impl, subscribers) :
       list' = [list EXCEPT ![p] = Snapshot(subscribers, f)]
  /\ pc' = [pc EXCEPT ![p] = "locked"]
  /\ cur' = [cur EXCEPT ![p] = 1]
  /\ subject' = [subject EXCEPT ![p] = subj]
  /\ message' = [message EXCEPT ![p] = [call |-> calls + 1, by |-> p]]
  /\ calls' = calls + 1
  /\ result' = [result EXCEPT ![p] = "none"]
  /\ deadAtSnap' = [deadAtSnap EXCEPT ![p] = {u \in DOMAIN handles : handles[u].state # "alive"}]
  /\ snapIds' = [snapIds EXCEPT ![p] = DOMAIN subscribers]
  /\ UNCHANGED <<impl, subscribers, handles, nextUuid, mailbox, closed, sendLog, received,
                 interrupted, text, parsed, unsubLog, matchIO>>

\* a publish that keeps the guard while it delivers
PublishUnlock_Mut(p) ==
  /\ pc[p] = "locked"
  /\ lock' = lock
  /\ Continue(p, 1)
  /\ UNCHANGED <<impl, subscribers, handles, nextUuid, mailbox, closed, calls, sendLog,
                 received, text, parsed, unsubLog, matchIO>>

\* Nattes::publish, the end of the block: the guard is released and the loop begins
PublishUnlock(p) ==
  /\ pc[p] = "locked"
  /\ lock' = "free"
  /\ Continue(p, 1)
  /\ UNCHANGED <<impl, subscribers, handles, nextUuid, mailbox, closed, calls, sendLog,
                 received, text, parsed, unsubLog, matchIO>>

\* the entry the for loop of publish is sending to
AtEntry(p) == pc[p] = "loop" /\ cur[p] <= Len(list[p])
Entry(p) == list[p][cur[p]]

\* a channel that takes one message more than its capacity
SendOutcome_Mut(c, q) ==
  IF c \in closed THEN "Closed" ELSE IF Len(q) > Capacity THEN "Full" ELSE "Sent"

\* tokio Sender::send on channel c with queue q: "Closed" when the Receiver is
\* gone, "Full" (the future stays pending) when there is no free slot
SendOutcome(c, q) ==
  IF c \in closed THEN "Closed" ELSE IF Len(q) >= Capacity THEN "Full" ELSE "Sent"

\* a publish that sends to a matching entry of the registry as it is now
PublishSend_Mut(p) ==
  /\ AtEntry(p)
  /\ \E u \in DOMAIN subscribers :
       /\ check_subject(subscribers[u].subscribe_subject, subject[p])
       /\ SendOutcome(subscribers[u].sender, mailbox[subscribers[u].sender]) = "Sent"
       /\ mailbox' = [mailbox EXCEPT ![subscribers[u].sender] = Append(@, message[p])]
       /\ sendLog' = [sendLog EXCEPT ![subscribers[u].sender] = Append(@, message[p])]
  /\ Continue(p, cur[p] + 1)
  /\ UNCHANGED <<impl, subscribers, handles, nextUuid, closed, lock, calls, received,
                 text, parsed, unsubLog, matchIO>>

\* Nattes::publish, sender.send(message.clone()).await completes, then the loop goes on
PublishSend(p) ==
  /\ AtEntry(p)
  /\ SendOutcome(Entry(p).sender, mailbox[Entry(p).sender]) = "Sent"
  /\ mailbox' = [mailbox EXCEPT ![Entry(p).sender] = Append(@, message[p])]
  /\ sendLog' = [sendLog EXCEPT ![Entry(p).sender] = Append(@, message[p])]
  /\ Continue(p, cur[p] + 1)
  /\ UNCHANGED <<impl, subscribers, handles, nextUuid, closed, lock, calls, received,
                 text, parsed, unsubLog, matchIO>>

\* publish that drops the error of send and goes on with the loop
PublishFail_Mut(p) ==
  /\ AtEntry(p)
  /\ SendOutcome(Entry(p).sender, mailbox[Entry(p).sender]) = "Closed"
  /\ Continue(p, cur[p] + 1)
  /\ UNCHANGED <<impl, subscribers, handles, nextUuid, mailbox, closed, lock, calls, sendLog,
                 received, text, parsed, unsubLog, matchIO>>

\* a publish that takes the entry of the closed channel out of the registry
PublishFail_MutPrune(p) ==
  /\ AtEntry(p)
  /\ SendOutcome(Entry(p).sender, mailbox[Entry(p).sender]) = "Closed"
  /\ Finish(p, "Err")
  /\ subscribers' = Remove(subscribers, Entry(p).uuid)
  /\ UNCHANGED <<impl, handles, nextUuid, mailbox, closed, lock, calls, sendLog,
                 received, text, parsed, unsubLog, matchIO>>

\* Nattes::publish, send fails on a closed channel and `?` returns the error
PublishFail(p) ==
  /\ AtEntry(p)
  /\ SendOutcome(Entry(p).sender, mailbox[Entry(p).sender]) = "Closed"
  /\ Finish(p, "Err")
  /\ UNCHANGED <<impl, subscribers, handles, nextUuid, mailbox, closed, lock, calls, sendLog,
                 received, text, parsed, unsubLog, matchIO>>

\* the Senders of the channel of u that are not dropped: the one in the
\* registry and the clones in the snapshots of the running publish calls
Senders(u) ==
  {<<"registry", 0>> : x \in {u} \cap DOMAIN subscribers}
  \cup {x \in Publishers \X (1..MaxSubs) :
          /\ pc[x[1]] # "idle"
          /\ x[2] <= Len(list[x[1]])
          /\ list[x[1]][x[2]].sender = u}

\* a poll_recv that ends the stream whenever the queue is empty
PollOutcome_Mut(u) ==
  IF mailbox[u] # <<>> THEN "Some" ELSE "None"

\* Receiver::poll_recv behind Subscriber::poll_next: a message, the end of the
\* stream once the queue is empty and no Sender is left, or Pending
PollOutcome(u) ==
  IF mailbox[u] # <<>> THEN "Some"
  ELSE IF Senders(u) = {} THEN "None"
  ELSE "Pending"

\* a receiver that takes the newest message of the queue
Recv_Mut(u) ==
  /\ u \in DOMAIN handles
  /\ handles[u].state = "alive"
  /\ mailbox[u] # <<>>
  /\ received' = [received EXCEPT ![u] = Append(@, mailbox[u][Len(mailbox[u])])]
  /\ mailbox' = [mailbox EXCEPT ![u] = SubSeq(@, 1, Len(@) - 1)]
  /\ UNCHANGED <<impl, subscribers, handles, nextUuid, closed, lock, pc, list, cur, subject,
                 message, result, calls, sendLog, deadAtSnap, snapIds, interrupted, text, parsed,
                 unsubLog, matchIO>>

\* Subscriber::poll_next yielding a message
Recv(u) ==
  /\ u \in DOMAIN handles
  /\ handles[u].state = "alive"
  /\ PollOutcome(u) = "Some"
  /\ received' = [received EXCEPT ![u] = Append(@, Head(mailbox[u]))]
  /\ mailbox' = [mailbox EXCEPT ![u] = Tail(@)]
  /\ UNCHANGED <<impl, subscribers, handles, nextUuid, closed, lock, pc, list, cur, subject,
                 message, result, calls, sendLog, deadAtSnap, snapIds, interrupted, text, parsed,
                 unsubLog, matchIO>>

\* the send of publish call p is pending on the full mailbox of u
Waiting(p, u) ==
  /\ AtEntry(p)
  /\ Entry(p).sender = u
  /\ SendOutcome(u, mailbox[u]) = "Full"

\* a Subscriber whose Receiver outlives it: the channel stays open
Destroy_Mut(u, how) ==
  /\ u \in DOMAIN handles
  /\ handles[u].state = "alive"
  /\ handles' = [handles EXCEPT ![u].state = how]
  /\ interrupted' = interrupted \cup {p \in Publishers : Waiting(p, u)}
  /\ UNCHANGED <<impl, subscribers, nextUuid, mailbox, closed, lock, pc, list, cur, subject,
                 message, result, calls, sendLog, received, deadAtSnap, snapIds, text, parsed, unsubLog, matchIO>>

\* the end of a Subscriber: Drop::drop calls unsubscribe on the Nattes the
\* handle holds (nattes only), then the fields go: the Receiver closes its
\* channel and the queued messages are discarded
Destroy(u, how) ==
  /\ u \in DOMAIN handles
  /\ handles[u].state = "alive"
  /\ handles' = [handles EXCEPT ![u].state = how,
                                ![u].nattes = IF impl = "nattes"
                                              THEN Nattes_unsubscribe(@, handles[u].uuid)
                                              ELSE @]
  /\ closed' = closed \cup {u}
  /\ mailbox' = [mailbox EXCEPT ![u] = <<>>]
  /\ interrupted' = interrupted \cup {p \in Publishers : Waiting(p, u)}
  /\ UNCHANGED <<impl, subscribers, nextUuid, lock, pc, list, cur, subject, message, result,
                 calls, sendLog, received, deadAtSnap, snapIds, text, parsed, unsubLog, matchIO>>

\* a Subscriber goes out of scope
DropHandle(u) == Destroy(u, "dropped")

\* Subscriber::unsubscribe (nattes only)
UnsubscribeHandle(u) == impl = "nattes" /\ Destroy(u, "unsubscribed")

PublisherStep(p) == PublishUnlock(p) \/ PublishSend(p) \/ PublishFail(p)

Next ==
  \/ \E pat \in SubscribeInputs(impl) : Subscribe(pat)
  \/ \E p \in Publishers, subj \in PublishInputs : PublishSnapshot(p, subj)
  \/ \E p \in Publishers : PublishUnlock(p)
  \/ \E p \in Publishers : PublishSend(p)
  \/ \E p \in Publishers : PublishFail(p)
  \/ \E u \in Uuids : Recv(u)
  \/ \E u \in Uuids : DropHandle(u)
  \/ \E u \in Uuids : UnsubscribeHandle(u)

Spec == Init /\ [][Next]_vars

\* a publish call that was polled keeps being polled: the executor runs every
\* task that is ready, and a send is woken when room appears or the channel closes
FairSpec == Spec /\ \A p \in Publishers : WF_vars(PublisherStep(p))

\* ------------------------------------------------------------ properties
\* C1: once a Subscriber handle is destroyed (unsubscribed or dropped), the
\* registry of the broker that made it no longer holds its identifier (nattes).
C1_DestroyedHandleLeavesRegistry ==
  impl = "nattes"
  => \A u \in DOMAIN handles : handles[u].state # "alive" => u \notin DOMAIN subscribers

\* a publish call of p returns in this step
Returns(p) == pc[p] # "idle" /\ pc'[p] = "idle"

\* C2: a publish whose snapshot is taken after a handle was dropped, on a
\* subject the dropped handle's pattern matches, returns Ok and puts nothing
\* in that subscriber's mailbox (nattes).
C2_PublishAfterDropSucceeds ==
  [][\A p \in Publishers : \A u \in deadAtSnap[p] :
       (impl = "nattes" /\ Returns(p) /\ handles[u].state = "dropped"
                   /\ check_subject(handles[u].subject, subject[p]))
       => (result'[p] = "Ok" /\ message[p] \notin Range(sendLog'[u]))]_vars

\* the snapshot of call p holds a registration of channel u whose pattern matches
MatchedBy(p, u) ==
  \E k \in 1..Len(list[p]) :
    list[p][k].sender = u /\ check_subject(list[p][k].subscribe_subject, subject[p])

\* C3: when publish returns Ok, every mailbox of a matching registration of
\* the snapshot got exactly one copy of the payload from the call, and every
\* other mailbox got none.
C3_OkDeliversExactlyOnce ==
  [][\A p \in Publishers :
       (Returns(p) /\ result'[p] = "Ok")
       => \A u \in Uuids :
            Count(sendLog'[u], message[p]) = IF MatchedBy(p, u) THEN 1 ELSE 0]_vars

\* a publisher got Ok and every subscriber holds one copy of one of its payloads
C3_Witness ==
  \E p \in Publishers :
    /\ pc[p] = "idle"
    /\ result[p] = "Ok"
    /\ \E m \in Range(sendLog[1]) :
         m.by = p /\ \A u \in Uuids : Count(sendLog[u], m) = 1

\* C4: a send of publish that meets a closed mailbox ends the call at once
\* with the error: nothing is put in any mailbox, and the entries from the
\* failing one to the end of the snapshot got nothing from the call.
C4_FailFast ==
  [][\A p \in Publishers :
       (/\ AtEntry(p)
        /\ check_subject(Entry(p).subscribe_subject, subject[p])
        /\ Entry(p).sender \in closed
        /\ <<pc[p], cur[p]>>' # <<pc[p], cur[p]>>)
       => /\ pc'[p] = "idle"
          /\ result'[p] = "Err"
          /\ mailbox' = mailbox
          /\ sendLog' = sendLog
          /\ \A k \in cur[p]..Len(list[p]) :
               message[p] \notin Range(sendLog[list[p][k].sender])]_vars

\* a send is about to fail while a later entry of the snapshot matches and is open
C4_Witness ==
  \E p \in Publishers :
    /\ AtEntry(p)
    /\ Entry(p).sender \in closed
    /\ \E k \in (cur[p] + 1)..Len(list[p]) :
         /\ check_subject(list[p][k].subscribe_subject, subject[p])
         /\ list[p][k].sender \notin closed

\* C5 as stated: a subscriber receives payloads in the order in which their
\* publish calls took their snapshots (calls are numbered in that order).
C5_SnapshotOrder ==
  \A u \in Uuids : \A i, j \in 1..Len(received[u]) :
    i < j => received[u][i].call < received[u][j].call

\* C5 amended: a subscriber receives payloads in the order in which they were
\* put in its mailbox, and the payloads of one publisher in call order.
C5_SendOrder ==
  \A u \in Uuids :
    /\ IsPrefix(received[u], sendLog[u])
    /\ \A i, j \in 1..Len(received[u]) :
         (i < j /\ received[u][i].by = received[u][j].by)
         => received[u][i].call < received[u][j].call

\* a subscriber received two payloads of one publisher and one of another
C5_Witness ==
  \E u \in Uuids :
    /\ Len(received[u]) = 3
    /\ \E i, j \in 1..3 : i < j /\ received[u][i].by = received[u][j].by
    /\ \E i, j \in 1..3 : received[u][i].by # received[u][j].by

\* C6: a publish call that was waiting on a full mailbox when the handle of
\* that mailbox was destroyed returns the delivery error.
C6_InterruptedPublishFails ==
  \A p \in Publishers : (p \in interrupted) ~> (pc[p] = "idle" /\ result[p] = "Err")

\* a call was waiting on a full mailbox when its subscriber was destroyed
C6_Witness == interrupted # {}

\* C7: a mailbox never holds more than Capacity payloads, and a call whose
\* send found the mailbox full stays where it is with its payload out of the
\* mailbox, whatever step is taken.
C7_MailboxBounded ==
  /\ [](\A u \in Uuids : Len(mailbox[u]) <= Capacity)
  /\ [][\A p \in Publishers : \A u \in Uuids :
          Waiting(p, u)
          => /\ pc'[p] = pc[p]
             /\ cur'[p] = cur[p]
             /\ message[p] \notin Range(mailbox'[u])
             /\ (mailbox'[u] = mailbox[u] \/ mailbox'[u] = Tail(mailbox[u])
                 \/ u \in closed')]_vars

\* a call waits on a full mailbox
C7_Witness == \E p \in Publishers, u \in Uuids : Waiting(p, u)

\* C17: while the registration of a subscriber is in the registry and its
\* handle is alive, poll_next does not report the end of the stream: it yields
\* a message or is pending.
C17_NoEndOfStreamWhileRegistered ==
  \A u \in DOMAIN handles :
    (handles[u].state = "alive" /\ u \in DOMAIN subscribers)
    => PollOutcome(u) \in {"Some", "Pending"}

\* an alive subscriber has taken every message sent to it and is pending, after
\* another handle was destroyed and while a publish call is running
C17_Witness ==
  \E u \in DOMAIN handles :
    /\ handles[u].state = "alive"
    /\ u \in DOMAIN subscribers
    /\ received[u] # <<>>
    /\ PollOutcome(u) = "Pending"
    /\ \E v \in DOMAIN handles : handles[v].state # "alive"
    /\ \E p \in Publishers : pc[p] # "idle"

\* C19: a publish call delivers only to the registrations that were in the
\* registry at its snapshot: every payload put in a mailbox is the payload of a
\* running call whose snapshot holds that subscriber, and the payload of a
\* running call is in no mailbox, send log or received sequence of a
\* subscriber registered after the snapshot.
C19_OnlySnapshotRegistrations ==
  /\ [][\A u \in Uuids :
          sendLog[u]' # sendLog[u]
          => \E p \in Publishers :
               /\ pc[p] # "idle"
               /\ u \in snapIds[p]
               /\ sendLog[u]' = Append(sendLog[u], message[p])]_vars
  /\ [](\A p \in Publishers : \A u \in Uuids \ snapIds[p] :
          pc[p] # "idle"
          => message[p] \notin Range(sendLog[u]) \cup Range(mailbox[u]) \cup Range(received[u]))

\* call p is still delivering; v subscribed after the snapshot of p with a
\* pattern that matches the subject of p, and has received the payload of a
\* later call but not that of p
C19_Witness ==
  \E p \in Publishers : \E v \in DOMAIN handles :
    /\ AtEntry(p)
    /\ v \notin snapIds[p]
    /\ v \in DOMAIN subscribers
    /\ handles[v].state = "alive"
    /\ check_subject(subscribers[v].subscribe_subject, subject[p])
    /\ \E k \in 1..Len(received[v]) : received[v][k].call > message[p].call
    /\ message[p] \notin Range(sendLog[v])

\* ------------------------------------------------------- a slow subscriber
\* the subjects published next to a slow subscriber of pattern b: b is sent to
\* it, a is not
SlowSubjectTexts == {<<"a">>, <<"b">>}
SlowPublishInputs ==
  {PublishSubject_from_str(t).val :
     t \in {x \in SlowSubjectTexts : PublishSubject_from_str(x).ok}}

\* the messages of the calls made before, sent to the slow subscriber and not taken
Backlog == [k \in 1..Capacity |-> [call |-> k - Capacity, by |-> "p1"]]

\* the broker after subscribe("b") and Capacity calls of publish("b") that have
\* returned, the subscriber having taken nothing: its mailbox is full
InitSlow ==
  /\ impl \in {"nattes", "nattes_lib"}
  /\ subscribers = Insert(NattesNew, 1, [subscribe_subject |-> FromStr(impl, <<"b">>).val,
                                         sender |-> 1])
  /\ handles = Insert(<<>>, 1, [uuid |-> 1, subject |-> FromStr(impl, <<"b">>).val,
                                nattes |-> NattesNew, state |-> "alive"])
  /\ nextUuid = 2
  /\ mailbox = [u \in Uuids |-> IF u = 1 THEN Backlog ELSE <<>>]
  /\ sendLog = [u \in Uuids |-> IF u = 1 THEN Backlog ELSE <<>>]
  /\ closed = {}
  /\ lock = "free"
  /\ pc = [p \in Publishers |-> "idle"]
  /\ list = [p \in Publishers |-> <<>>]
  /\ cur = [p \in Publishers |-> 1]
  /\ subject = [p \in Publishers |-> <<>>]
  /\ message = [p \in Publishers |-> NoMessage]
  /\ result = [p \in Publishers |-> "none"]
  /\ calls = 0
  /\ received = [u \in Uuids |-> <<>>]
  /\ deadAtSnap = [p \in Publishers |-> {}]
  /\ snapIds = [p \in Publishers |-> {}]
  /\ interrupted = {}
  /\ parsed = NoResult
  /\ unsubLog = <<>>
  /\ text = <<>>
  /\ matchIO = NoMatch

NextSlow ==
  \/ \E pat \in SubscribeInputs(impl) : Subscribe(pat)
  \/ \E p \in Publishers, subj \in SlowPublishInputs : PublishSnapshot(p, subj)
  \/ \E p \in Publishers : PublishUnlock(p)
  \/ \E p \in Publishers : PublishSend(p)
  \/ \E p \in Publishers : PublishFail(p)
  \/ \E u \in Uuids : Recv(u)
  \/ \E u \in Uuids : DropHandle(u)
  \/ \E u \in Uuids : UnsubscribeHandle(u)

SpecSlow == InitSlow /\ [][NextSlow]_vars

Parse ==
  /\ ~parsed.done
  /\ parsed' = [done |-> TRUE,
                pub |-> PublishSubject_from_str(text),
                str |-> IF PublishSubject_from_str(text).ok
                        THEN PublishSubject_to_string(PublishSubject_from_str(text).val)
                        ELSE <<>>,
                sub |-> SubscribeSubject_from_str(text),
                sub_lib |-> SubscribeSubject_from_str_lib(text),
                matches |-> /\ PublishSubject_from_str(text).ok
                            /\ SubscribeSubject_from_str(text).ok
                            /\ check_subject(SubscribeSubject_from_str(text).val,
                                             PublishSubject_from_str(text).val),
                matches_lib |-> /\ PublishSubject_from_str(text).ok
                                /\ SubscribeSubject_from_str_lib(text).ok
                                /\ check_subject(SubscribeSubject_from_str_lib(text).val,
                                                 PublishSubject_from_str(text).val)]
  /\ UNCHANGED <<brokerVars, text, unsubLog, matchIO>>

InitParse ==
  /\ RestInit
  /\ impl = "nattes"
  /\ subscribers = NattesNew
  /\ text \in Texts
  /\ matchIO = NoMatch

NextParse == Parse

SpecParse == InitParse /\ [][NextParse]_vars

\* every token with '*' is exactly "*", every token with '>' is exactly ">" and last
WellFormed(t) ==
  \A i \in 1..Len(Split(t)) :
    /\ Contains(Split(t)[i], "*") => Split(t)[i] = STAR
    /\ Contains(Split(t)[i], ">") => (Split(t)[i] = GT /\ i = Len(Split(t)))

\* the result r of parsing t as a pattern is what the rule of well-formedness says
AsRuled(r, t) ==
  /\ r.ok <=> WellFormed(t)
  /\ r.ok => r.val = Split(t)
  /\ ~r.ok => r.err = "InvalidSubscribeSubject"

\* C9: on a text without NUL and space, each of the two from_str of
\* SubscribeSubject succeeds exactly on the well-formed texts and rejects the
\* others with InvalidSubscribeSubject.
C9_ParseSubscribePattern ==
  (parsed.done /\ ~Contains(text, NUL) /\ ~Contains(text, " "))
  => (AsRuled(parsed.sub, text) /\ AsRuled(parsed.sub_lib, text))

\* C10: a text that parses as a publish subject parses as a pattern (nattes),
\* and that pattern matches that subject.
C10_LiteralPatternMatchesItself ==
  (parsed.done /\ parsed.pub.ok) => (parsed.sub.ok /\ parsed.matches)

\* C15: a text without "*", ">", NUL and space parses as a publish subject, and
\* the string of the parsed subject is the text, empty tokens and the empty
\* text included.
C15_PublishSubjectRoundTrip ==
  (parsed.done /\ ~\E c \in {"*", ">", NUL, " "} : Contains(text, c))
  => (parsed.pub.ok /\ parsed.str = text)

\* a text with a leading dot and two dots in a row went through the round trip
C15_Witness ==
  /\ parsed.done
  /\ parsed.pub.ok
  /\ Len(text) >= 3
  /\ text[1] = "."
  /\ \E i \in 2..(Len(text) - 1) : text[i] = "." /\ text[i + 1] = "."
  /\ parsed.str = text

\* C16: a from_str of SubscribeSubject that fails, on NUL or space too, fails
\* with InvalidSubscribeSubject and never with InvalidPublishSubject.
C16_PatternErrorIsSubscribeError ==
  parsed.done
  => (/\ ~parsed.sub.ok => parsed.sub.err = "InvalidSubscribeSubject"
      /\ ~parsed.sub_lib.ok => parsed.sub_lib.err = "InvalidSubscribeSubject")

\* ----------------------------------------------------------- unsubscribe
\* the registries Nattes::unsubscribe is applied to
Registries ==
  {[u \in D |-> [subscribe_subject |-> f[u], sender |-> u]] :
     f \in [1..MaxUuid -> SubscribeInputs("nattes")], D \in SUBSET (1..MaxUuid)}

\* Nattes::unsubscribe(uuid) on the broker
BrokerUnsubscribe(u) ==
  /\ Len(unsubLog) < MaxUnsubCalls
  /\ lock = "free"
  /\ subscribers' = Nattes_unsubscribe(subscribers, u)
  /\ unsubLog' = Append(unsubLog, u)
  /\ UNCHANGED <<impl, handles, nextUuid, mailbox, closed, lock, pc, list, cur, subject, message,
                 result, calls, sendLog, received, deadAtSnap, snapIds, interrupted, text, parsed,
                 matchIO>>

InitUnsub ==
  /\ RestInit
  /\ impl = "nattes"
  /\ subscribers \in Registries
  /\ text = <<>>
  /\ matchIO = NoMatch

NextUnsub == \E u \in 1..MaxUuid : BrokerUnsubscribe(u)

SpecUnsub == InitUnsub /\ [][NextUnsub]_vars

\* C8: a call of unsubscribe with an identifier it was called with before, or
\* with one that is not registered, leaves the registry as it was.
C8_UnsubscribeIdempotent ==
  [][\A u \in 1..MaxUuid :
       (unsubLog' = Append(unsubLog, u) /\ (u \in Range(unsubLog) \/ u \notin DOMAIN subscribers))
       => subscribers' = subscribers]_vars

\* unsubscribe was called twice in a row with one identifier, entries remain
C8_Witness ==
  /\ Len(unsubLog) >= 2
  /\ unsubLog[Len(unsubLog)] = unsubLog[Len(unsubLog) - 1]
  /\ DOMAIN subscribers # {}

\* ------------------------------------------------------------- registry
\* the broker with one publisher, and Nattes::unsubscribe called on the broker
\* itself (nattes only: nattes-lib has no unsubscribe)
RegistryPublishers == {"p1"}

NextRegistry ==
  \/ \E pat \in SubscribeInputs(impl) : Subscribe(pat)
  \/ \E p \in RegistryPublishers, subj \in PublishInputs : PublishSnapshot(p, subj)
  \/ \E p \in RegistryPublishers : PublishUnlock(p)
  \/ \E p \in RegistryPublishers : PublishSend(p)
  \/ \E p \in RegistryPublishers : PublishFail(p)
  \/ \E u \in Uuids : Recv(u)
  \/ \E u \in Uuids : DropHandle(u)
  \/ \E u \in Uuids : UnsubscribeHandle(u)
  \/ \E u \in 1..MaxUuid : impl = "nattes" /\ BrokerUnsubscribe(u)

SpecRegistry == Init /\ [][NextRegistry]_vars

\* the step is one of a publish call: its snapshot, its unlock, a send, a return
PublishStepTaken == pc' # pc \/ sendLog' # sendLog

\* C20: the registry changes only in a step of subscribe or of unsubscribe. A
\* publish step leaves it as it is; subscribe adds one entry under an
\* identifier that is not in it and keeps the others; unsubscribe takes out at
\* most the entry of its identifier and keeps the others.
C20_RegistryFrame ==
  [][/\ subscribers' # subscribers => (nextUuid' # nextUuid \/ unsubLog' # unsubLog)
     /\ PublishStepTaken => subscribers' = subscribers
     /\ nextUuid' # nextUuid
        => /\ nextUuid \notin DOMAIN subscribers
           /\ DOMAIN subscribers' = DOMAIN subscribers \cup {nextUuid}
           /\ Cardinality(DOMAIN subscribers') = Cardinality(DOMAIN subscribers) + 1
           /\ \A u \in DOMAIN subscribers : subscribers'[u] = subscribers[u]
     /\ unsubLog' # unsubLog
        => /\ DOMAIN subscribers' \subseteq DOMAIN subscribers
           /\ DOMAIN subscribers \ DOMAIN subscribers' \subseteq {unsubLog'[Len(unsubLog')]}
           /\ \A u \in DOMAIN subscribers' : subscribers'[u] = subscribers[u]]_vars

\* a publish failed, unsubscribe took an entry out, and an entry subscribed
\* later than the first identifier unsubscribe was called with is in the registry
C20_Witness ==
  /\ result["p1"] = "Err"
  /\ \E u \in Range(unsubLog) : u < nextUuid /\ u \notin DOMAIN subscribers
  /\ \E u \in DOMAIN subscribers : u > unsubLog[1]

\* -------------------------------------------------------------- matching
MatchTokens == {<<>>, <<"a">>, <<"b">>, STAR, GT}
TokenSeqs(n) == UNION {[1..k -> MatchTokens] : k \in 1..n}

\* the SubscribeSubject values from_str builds (nattes-lib: every well-formed pattern)
MatchPatterns ==
  {SubscribeSubject_from_str_lib(Join(q)).val :
     q \in {x \in TokenSeqs(MaxPatTokens) : SubscribeSubject_from_str_lib(Join(x)).ok}}

\* the PublishSubject values from_str builds
MatchSubjects ==
  {PublishSubject_from_str(Join(q)).val :
     q \in {x \in TokenSeqs(MaxSubjTokens) : PublishSubject_from_str(Join(x)).ok}}

\* check_subject of a parsed pattern
CheckParsed ==
  /\ matchIO.from = "parsed"
  /\ ~matchIO.done
  /\ matchIO' = [matchIO EXCEPT !.done = TRUE,
                                !.result = check_subject(matchIO.pat, matchIO.subj)]
  /\ UNCHANGED <<brokerVars, text, parsed, unsubLog>>

\* check_subject of the pattern converted from the publish subject src
CheckConverted ==
  /\ matchIO.from = "converted"
  /\ ~matchIO.done
  /\ matchIO' = [matchIO EXCEPT !.done = TRUE,
                                !.pat = PublishSubject_into(matchIO.src),
                                !.result = check_subject(PublishSubject_into(matchIO.src),
                                                         matchIO.subj)]
  /\ UNCHANGED <<brokerVars, text, parsed, unsubLog>>

InitMatch ==
  /\ RestInit
  /\ impl = "nattes"
  /\ subscribers = NattesNew
  /\ text = <<>>
  /\ \/ \E q \in MatchPatterns, t \in MatchSubjects :
          matchIO = [from |-> "parsed", src |-> <<>>, pat |-> q, subj |-> t,
                     done |-> FALSE, result |-> FALSE]
     \/ \E q \in MatchSubjects, t \in MatchSubjects :
          /\ Len(q) <= MaxPatTokens
          /\ matchIO = [from |-> "converted", src |-> q, pat |-> <<>>, subj |-> t,
                        done |-> FALSE, result |-> FALSE]

NextMatching == CheckParsed \/ CheckConverted

SpecMatch == InitMatch /\ [][NextMatching]_vars

\* the pattern ends in ">"
EndsInGT(q) == q[Len(q)] = GT

\* the first k tokens of the pattern q are "*" or the tokens of t at their index
Agree(q, t, k) == \A i \in 1..k : i <= Len(t) /\ (q[i] = STAR \/ q[i] = t[i])

\* C11 as stated: a pattern ending in ">" matches every subject that has at
\* least as many tokens as the pattern less one.
C11_TailMatchesFromLengthLessOne ==
  (matchIO.done /\ EndsInGT(matchIO.pat) /\ Len(matchIO.subj) >= Len(matchIO.pat) - 1)
  => matchIO.result

\* C11 amended: a pattern ending in ">" matches every subject that has at least
\* as many tokens as the pattern and agrees with the tokens before the ">",
\* whatever the number and the values of the tokens from the ">" on.
C11_TailMatches ==
  (/\ matchIO.done
   /\ EndsInGT(matchIO.pat)
   /\ Len(matchIO.subj) >= Len(matchIO.pat)
   /\ Agree(matchIO.pat, matchIO.subj, Len(matchIO.pat) - 1))
  => matchIO.result

\* a pattern of two tokens or more ending in ">" matched a longer subject
C11_Witness ==
  /\ matchIO.done
  /\ matchIO.from = "parsed"
  /\ Len(matchIO.pat) >= 2
  /\ EndsInGT(matchIO.pat)
  /\ Len(matchIO.subj) > Len(matchIO.pat)
  /\ matchIO.result

\* C12: a pattern whose last token is ">" at index k (from 0) matches exactly
\* the subjects of more than k tokens that agree with its first k tokens.
C12_TailExactly ==
  (matchIO.done /\ EndsInGT(matchIO.pat))
  => (matchIO.result <=> (/\ Len(matchIO.subj) > Len(matchIO.pat) - 1
                          /\ Agree(matchIO.pat, matchIO.subj, Len(matchIO.pat) - 1)))

\* a.> was checked against the one-token subject a and did not match
C12_Witness ==
  /\ matchIO.done
  /\ matchIO.pat = <<<<"a">>, GT>>
  /\ matchIO.subj = <<<<"a">>>>
  /\ ~matchIO.result

\* C13: a pattern without ">" matches exactly the subjects of the same number
\* of tokens that agree with all its tokens; "*" takes any token, also an empty one.
C13_NoTailExactly ==
  (matchIO.done /\ GT \notin Range(matchIO.pat))
  => (matchIO.result <=> (/\ Len(matchIO.subj) = Len(matchIO.pat)
                          /\ Agree(matchIO.pat, matchIO.subj, Len(matchIO.pat))))

\* a "*" matched an empty token
C13_Witness ==
  /\ matchIO.done
  /\ matchIO.result
  /\ \E i \in 1..Len(matchIO.pat) : matchIO.pat[i] = STAR /\ matchIO.subj[i] = <<>>

\* C14: the pattern converted from a publish subject matches a subject exactly
\* when the two have the same tokens.
C14_ConvertedMatchesItselfOnly ==
  (matchIO.done /\ matchIO.from = "converted")
  => (matchIO.result <=> matchIO.subj = matchIO.src)

\* a converted pattern of two tokens or more matched
C14_Witness ==
  /\ matchIO.done
  /\ matchIO.from = "converted"
  /\ Len(matchIO.src) >= 2
  /\ matchIO.result

====
